---- MODULE Spec2Model ----
(***************************************************************************)
(* A model of the AtomDesignSystem build scripts:                          *)
(*   scripts/watch.js          the watcher and its busy flag               *)
(*   scripts/build.js:1-108    the module compiler loop and the bundles    *)
(*   scripts/build.js:110-366  tokens-to-scss.js in its DTCG version: the  *)
(*                             value converter, the token flattener and    *)
(*                             the reference resolver                      *)
(*   scripts/tokens-to-scss.js the older version of that script            *)
(***************************************************************************)
EXTENDS Integers, Sequences, FiniteSets, TLC

VARIABLES
  building,   \* watch.js: let building
  wpc,        \* watch.js: position of each invocation of rebuild()
  changed,    \* watch.js: the changedFile argument of each invocation
  log,        \* watch.js: the external steps started, in order, as <<event, step>>
  threw,      \* watch.js: the step of each invocation whose execSync threw, or "none"
  bpc,        \* build.js: position of the script
  bi,         \* build.js: index of the manifest entry the loop is at
  built,      \* build.js: let built
  skipped,    \* build.js: let skipped
  srcExists,  \* build.js: what fs.existsSync(entryPath) answered for each entry
  invoked,    \* build.js: the entries sass was invoked for, in order
  succeeded,  \* build.js: the entries whose sass invocation returned normally
  dirs,       \* build.js: the directories under dist/
  dist,       \* build.js: the files under dist/
  dist0,      \* build.js: the files under dist/ when the script started
  cval,       \* tokens-to-scss.js: valueToCss, the argument val
  ctype,      \* tokens-to-scss.js: valueToCss, the argument type
  css,        \* tokens-to-scss.js: valueToCss, the value returned
  cpc,        \* tokens-to-scss.js: valueToCss, "ready" or "done"
  rin,        \* tokens-to-scss.js: the value handed to the reference resolver
  rout,       \* tokens-to-scss.js: what the resolver returned
  rpc,        \* tokens-to-scss.js: "ready", or the version of the script that ran
  tree,       \* tokens-to-scss.js: the parsed token file handed to flattenTokens
  fres,       \* tokens-to-scss.js: what flattenTokens returned, or that it threw
  fpc         \* tokens-to-scss.js: "ready", or the version of the script that ran

watchVars == <<building, wpc, changed, log, threw>>

buildVars == <<bpc, bi, built, skipped, srcExists, invoked, succeeded, dirs, dist, dist0>>

convVars == <<cval, ctype, css, cpc>>

refVars == <<rin, rout, rpc>>

flatVars == <<tree, fres, fpc>>

vars == <<watchVars, buildVars, convVars, refVars, flatVars>>

otherThanWatch == <<buildVars, convVars, refVars, flatVars>>

otherThanBuild == <<watchVars, convVars, refVars, flatVars>>

otherThanConv == <<watchVars, buildVars, refVars, flatVars>>

otherThanRef == <<watchVars, buildVars, convVars, flatVars>>

otherThanFlat == <<watchVars, buildVars, convVars, refVars>>

(***************************************************************************)
(* watch.js                                                                *)
(***************************************************************************)

\* Number of change/add events chokidar delivers in one watch session.
MaxEvents == 3

Events == 1..MaxEvents

\* Paths relative to the project root, as their segments. The watcher is
\* subscribed to SRC/**/*.scss and TOKENS/**/*.json.
WatchedPaths ==
  { <<"tokens", "global", "colors.tokens.json">>,
    <<"tokens", "semantic", "colors.tokens.json">>,
    <<"src", "tokens", "_primitive.scss">>,
    <<"src", "components", "button", "_index.scss">> }

NoPath == <<>>

\* const TOKENS = path.join(__dirname, '..', 'tokens')
TOKENS == <<"tokens">>

\* changedFile.startsWith(TOKENS)
startsWith(p, prefix) ==
  /\ Len(p) >= Len(prefix)
  /\ SubSeq(p, 1, Len(prefix)) = prefix

\* The mutant of rebuildGuard: the busy check is missing.
rebuildGuardMissing(b) == FALSE

\* if (building) return;
rebuildGuard(b) == b

\* The mutant of rebuildRelease: the flag is released only on the success
\* path (building = false written as the last statement of the try block).
rebuildReleaseInTry(t) == t

\* building = false; after the try/catch, whether or not a step threw.
rebuildRelease(t) == FALSE

\* The mutant of tokensFirst: the token step is run for every change.
tokensAlways(f) == TRUE

\* if (changedFile.startsWith(TOKENS)) execSync('npm run tokens')
tokensFirst(f) == startsWith(f, TOKENS)

Executing(e) == wpc[e] \in {"tokens", "core"}

InitWatch ==
  /\ building = FALSE
  /\ wpc = [e \in Events |-> "pending"]
  /\ changed = [e \in Events |-> NoPath]
  /\ log = <<>>
  /\ threw = [e \in Events |-> "none"]

\* rebuild(changedFile) entered while building: the early return.
RebuildDropped(e, f) ==
  /\ UNCHANGED otherThanWatch
  /\ wpc[e] = "pending"
  /\ \A d \in Events : d < e => wpc[d] # "pending"
  /\ rebuildGuard(building)
  /\ wpc' = [wpc EXCEPT ![e] = "dropped"]
  /\ changed' = [changed EXCEPT ![e] = f]
  /\ UNCHANGED <<building, log, threw>>

\* rebuild(changedFile) entered while idle: sets the flag and runs up to the
\* first blocking execSync call.
RebuildStart(e, f) ==
  /\ UNCHANGED otherThanWatch
  /\ wpc[e] = "pending"
  /\ \A d \in Events : d < e => wpc[d] # "pending"
  /\ ~rebuildGuard(building)
  /\ building' = TRUE
  /\ changed' = [changed EXCEPT ![e] = f]
  /\ UNCHANGED threw
  /\ IF tokensFirst(f)
       THEN /\ wpc' = [wpc EXCEPT ![e] = "tokens"]
            /\ log' = Append(log, <<e, "tokens">>)
       ELSE /\ wpc' = [wpc EXCEPT ![e] = "core"]
            /\ log' = Append(log, <<e, "core">>)

\* execSync('npm run tokens') returns (ok) or throws.
TokensExit(e, ok) ==
  /\ UNCHANGED otherThanWatch
  /\ wpc[e] = "tokens"
  /\ IF ok
       THEN /\ wpc' = [wpc EXCEPT ![e] = "core"]
            /\ log' = Append(log, <<e, "core">>)
            /\ UNCHANGED <<building, threw>>
       ELSE /\ wpc' = [wpc EXCEPT ![e] = "failed"]
            /\ threw' = [threw EXCEPT ![e] = "tokens"]
            /\ building' = rebuildRelease(TRUE)
            /\ UNCHANGED log
  /\ UNCHANGED changed

\* execSync('npm run build:core') returns (ok) or throws.
CoreExit(e, ok) ==
  /\ UNCHANGED otherThanWatch
  /\ wpc[e] = "core"
  /\ wpc' = [wpc EXCEPT ![e] = IF ok THEN "complete" ELSE "failed"]
  /\ threw' = [threw EXCEPT ![e] = IF ok THEN "none" ELSE "core"]
  /\ building' = rebuildRelease(~ok)
  /\ UNCHANGED <<changed, log>>

\* watcher.on('change', rebuild); watcher.on('add', rebuild). An event may
\* be handed to rebuild() while an earlier invocation is inside one of its
\* execSync calls: the re-entrant delivery the building flag is there for.
\* Node itself delivers no event before a blocking execSync returns, so its
\* runs are the runs of this relation in which no event is dropped.
NextWatch ==
  \/ \E e \in Events, f \in WatchedPaths : RebuildDropped(e, f)
  \/ \E e \in Events, f \in WatchedPaths : RebuildStart(e, f)
  \/ \E e \in Events, ok \in BOOLEAN : TokensExit(e, ok)
  \/ \E e \in Events, ok \in BOOLEAN : CoreExit(e, ok)

(***************************************************************************)
(* build.js                                                                *)
(***************************************************************************)

\* const modules: the manifest, one entry of each group of the source's list
\* (both token entries and two extensions are kept, since the bundle steps
\* read their outputs). Paths are sequences of segments.
modules ==
  << [entry |-> <<"tokens", "_primitive.scss">>,
      output |-> <<"tokens", "primitives.css">>],
     [entry |-> <<"tokens", "_semantic.scss">>,
      output |-> <<"tokens", "semantic.css">>],
     [entry |-> <<"foundations", "typography", "_index.scss">>,
      output |-> <<"foundations", "typography.css">>],
     [entry |-> <<"extensions", "inbox", "_index.scss">>,
      output |-> <<"extensions", "inbox.css">>],
     [entry |-> <<"extensions", "ai", "_index.scss">>,
      output |-> <<"extensions", "ai.css">>],
     [entry |-> <<"utilities", "_index.scss">>,
      output |-> <<"utilities.css">>] >>

Entries == 1..Len(modules)

\* path.dirname
dirname(p) == SubSeq(p, 1, Len(p) - 1)

primPath == <<"tokens", "primitives.css">>
semPath == <<"tokens", "semantic.css">>
allTokensPath == <<"tokens", "all-tokens.css">>
extDir == <<"extensions">>
allExtensionsPath == <<"extensions", "all-extensions.css">>

\* f.endsWith('.css'), over the file names that occur under dist/
endsWithCss(name) ==
  name \in {"primitives.css", "semantic.css", "all-tokens.css",
            "typography.css", "inbox.css", "ai.css", "all-extensions.css",
            "utilities.css"}

\* What a previous run may have left under dist/.
StaleDists ==
  { {},
    {<<"tokens", "primitives.css">>, <<"extensions", "ai.css">>,
     <<"extensions", "notes.txt">>},
    {modules[i].output : i \in Entries} \cup {allTokensPath, allExtensionsPath} }

\* The mutant of sourceMissing: the existence check is lost.
sourceMissingNever(exists) == FALSE

\* if (!fs.existsSync(entryPath))
sourceMissing(exists) == ~exists

\* The mutant of builtAfter: built++ moved behind the try/catch.
builtAfterAlways(b, ok) == b + 1

\* built++ as the last statement of the try block
builtAfter(b, ok) == IF ok THEN b + 1 ELSE b

InitBuild ==
  /\ bpc = "loop"
  /\ bi = 1
  /\ built = 0
  /\ skipped = 0
  /\ srcExists = [i \in Entries |-> "unknown"]
  /\ invoked = <<>>
  /\ succeeded = {}
  /\ dist0 \in StaleDists
  /\ dist = dist0
  /\ dirs = {dirname(f) : f \in dist0}

\* One iteration whose entry is skipped: SKIP, skipped++, continue.
ModuleSkip(exists) ==
  /\ UNCHANGED otherThanBuild
  /\ bpc = "loop"
  /\ bi <= Len(modules)
  /\ sourceMissing(exists)
  /\ srcExists' = [srcExists EXCEPT ![bi] = exists]
  /\ skipped' = skipped + 1
  /\ bi' = bi + 1
  /\ UNCHANGED <<bpc, built, invoked, succeeded, dirs, dist, dist0>>

\* One iteration whose entry is compiled: mkdirSync, then execSync(sass ...)
\* inside try/catch. The compiler is a black box: when it fails, the output
\* file may be there afterwards (an error stylesheet, a stale file) or not.
ModuleCompile(exists, ok, left) ==
  /\ UNCHANGED otherThanBuild
  /\ bpc = "loop"
  /\ bi <= Len(modules)
  /\ ~sourceMissing(exists)
  /\ srcExists' = [srcExists EXCEPT ![bi] = exists]
  /\ dirs' = dirs \cup {dirname(modules[bi].output)}
  /\ invoked' = Append(invoked, bi)
  /\ succeeded' = IF ok THEN succeeded \cup {bi} ELSE succeeded
  /\ dist' = IF ok \/ left THEN dist \cup {modules[bi].output}
                           ELSE dist \ {modules[bi].output}
  /\ built' = builtAfter(built, ok)
  /\ bi' = bi + 1
  /\ UNCHANGED <<bpc, skipped, dist0>>

\* The loop is over.
LoopExit ==
  /\ UNCHANGED otherThanBuild
  /\ bpc = "loop"
  /\ bi > Len(modules)
  /\ bpc' = "tokens_bundle"
  /\ UNCHANGED <<bi, built, skipped, srcExists, invoked, succeeded, dirs, dist, dist0>>

\* Generate combined token file
TokensBundle ==
  /\ UNCHANGED otherThanBuild
  /\ bpc = "tokens_bundle"
  /\ bpc' = "ext_bundle"
  /\ dist' = IF primPath \in dist /\ semPath \in dist
               THEN dist \cup {allTokensPath}
               ELSE dist
  /\ UNCHANGED <<bi, built, skipped, srcExists, invoked, succeeded, dirs, dist0>>

extFiles ==
  { f \in dist : /\ dirname(f) = extDir
                 /\ endsWithCss(f[Len(f)])
                 /\ f # allExtensionsPath }

\* Generate combined extensions file, then the closing "Done." line
ExtensionsBundle ==
  /\ UNCHANGED otherThanBuild
  /\ bpc = "ext_bundle"
  /\ bpc' = "done"
  /\ dist' = IF extDir \in dirs /\ extFiles # {}
               THEN dist \cup {allExtensionsPath}
               ELSE dist
  /\ UNCHANGED <<bi, built, skipped, srcExists, invoked, succeeded, dirs, dist0>>

NextBuild ==
  \/ \E exists \in BOOLEAN : ModuleSkip(exists)
  \/ \E exists \in BOOLEAN, ok \in BOOLEAN, left \in BOOLEAN :
       ModuleCompile(exists, ok, left)
  \/ LoopExit
  \/ TokensBundle
  \/ ExtensionsBundle

(***************************************************************************)
(* tokens-to-scss.js: JavaScript values                                    *)
(*                                                                         *)
(* A value is a record with a kind k: null, undefined, a string, a number, *)
(* an array (items) or an object (fields: its entries <<key, value>> in    *)
(* Object.entries order). A thrown TypeError is the value Throw.           *)
(***************************************************************************)

JNull == [k |-> "null"]
JUndef == [k |-> "undefined"]
JStr(str) == [k |-> "string", s |-> str]
JNum(num) == [k |-> "number", n |-> num]
JArr(its) == [k |-> "array", items |-> its]
JObj(fs) == [k |-> "object", fields |-> fs]
Throw == [k |-> "TypeError"]

\* typeof v === 'object'
typeofObject(v) == v.k \in {"null", "array", "object"}

\* JavaScript truthiness
Truthy(v) ==
  CASE v.k \in {"null", "undefined"} -> FALSE
    [] v.k = "string" -> v.s # ""
    [] v.k = "number" -> v.n # 0
    [] OTHER -> TRUE

\* o.key of an object, an array, a string or a number (undefined when the
\* property is absent); of null or undefined it is a TypeError.
Get(o, key) ==
  CASE o.k \in {"null", "undefined"} -> Throw
    [] o.k = "object" ->
         IF \E i \in 1..Len(o.fields) : o.fields[i][1] = key
           THEN o.fields[CHOOSE i \in 1..Len(o.fields) : o.fields[i][1] = key][2]
           ELSE JUndef
    [] OTHER -> JUndef

RECURSIVE JoinWith(_, _)
\* Array.prototype.join over strings
JoinWith(strs, sep) ==
  IF Len(strs) = 0 THEN ""
  ELSE IF Len(strs) = 1 THEN strs[1]
  ELSE strs[1] \o sep \o JoinWith(Tail(strs), sep)

RECURSIVE ToStr(_)
\* String(v) and `${v}`
ToStr(v) ==
  CASE v.k = "null" -> "null"
    [] v.k = "undefined" -> "undefined"
    [] v.k = "string" -> v.s
    [] v.k = "number" -> ToString(v.n)
    [] v.k = "array" ->
         JoinWith([i \in 1..Len(v.items) |->
                     IF v.items[i].k \in {"null", "undefined"}
                       THEN "" ELSE ToStr(v.items[i])], ",")
    [] OTHER -> "[object Object]"

RECURSIVE Stringify(_)
\* JSON.stringify(v); entries whose value is undefined are left out
Stringify(v) ==
  CASE v.k = "null" -> "null"
    [] v.k = "undefined" -> "null"
    [] v.k = "string" -> "\"" \o v.s \o "\""
    [] v.k = "number" -> ToString(v.n)
    [] v.k = "array" ->
         "[" \o JoinWith([i \in 1..Len(v.items) |-> Stringify(v.items[i])], ",")
             \o "]"
    [] OTHER ->
         LET kept == SelectSeq(v.fields, LAMBDA f : f[2].k # "undefined")
         IN "{" \o JoinWith([i \in 1..Len(kept) |->
                               "\"" \o kept[i][1] \o "\":" \o Stringify(kept[i][2])],
                            ",")
                \o "}"

(***************************************************************************)
(* tokens-to-scss.js: value conversion                                     *)
(***************************************************************************)

\* function extractValue(token)
extractValue(token) ==
  IF Get(token, "$value") = Throw THEN Throw
  ELSE IF Get(token, "$value").k # "undefined" THEN Get(token, "$value")
  ELSE IF Get(token, "value").k # "undefined" THEN Get(token, "value")
  ELSE JNull

\* The mutant of dimensionToCss: the unit is dropped.
dimensionToCssNoUnit(dim) ==
  IF dim.k = "string" THEN JStr(dim.s)
  ELSE IF dim.k = "object" /\ Get(dim, "value").k # "undefined"
    THEN JStr(ToStr(Get(dim, "value")))
  ELSE JStr(ToStr(dim))

\* function dimensionToCss(dim)
dimensionToCss(dim) ==
  IF dim.k = "string" THEN JStr(dim.s)
  ELSE IF /\ Truthy(dim)
          /\ typeofObject(dim)
          /\ Get(dim, "value").k # "undefined"
          /\ Truthy(Get(dim, "unit"))
    THEN JStr(ToStr(Get(dim, "value")) \o ToStr(Get(dim, "unit")))
  ELSE JStr(ToStr(dim))

\* function cubicBezierToCss(arr)
cubicBezierToCss(arr) ==
  IF arr.k = "array" /\ Len(arr.items) = 4
    THEN JStr("cubic-bezier("
              \o JoinWith([i \in 1..4 |->
                             IF arr.items[i].k \in {"null", "undefined"}
                               THEN "" ELSE ToStr(arr.items[i])], ", ")
              \o ")")
    ELSE JStr(ToStr(arr))

\* function singleShadowToCss(s)
singleShadowToCss(sh) ==
  IF Get(sh, "offsetX") = Throw THEN Throw
  ELSE JStr(dimensionToCss(Get(sh, "offsetX")).s \o " "
            \o dimensionToCss(Get(sh, "offsetY")).s \o " "
            \o dimensionToCss(Get(sh, "blur")).s \o " "
            \o dimensionToCss(Get(sh, "spread")).s \o " "
            \o ToStr(Get(sh, "color")))

\* function shadowToCss(val)
shadowToCss(val) ==
  IF val.k = "array"
    THEN IF \E i \in 1..Len(val.items) : singleShadowToCss(val.items[i]) = Throw
           THEN Throw
           ELSE JStr(JoinWith([i \in 1..Len(val.items) |->
                                 singleShadowToCss(val.items[i]).s], ", "))
    ELSE singleShadowToCss(val)

\* function valueToCss(val, type); type is a value: a string, or null
valueToCss(val, type) ==
  IF val.k \in {"null", "undefined"} THEN JNull
  ELSE IF val.k = "string" THEN JStr(val.s)
  ELSE IF val.k = "number" THEN JStr(ToString(val.n))
  ELSE IF val.k = "array"
    THEN IF type = JStr("cubicBezier") THEN cubicBezierToCss(val)
         ELSE IF type = JStr("shadow") THEN shadowToCss(val)
         ELSE JStr(ToStr(val))
  ELSE IF val.k = "object"
    THEN IF Get(val, "value").k # "undefined" /\ Get(val, "unit").k # "undefined"
           THEN dimensionToCss(val)
         ELSE IF Get(val, "offsetX").k # "undefined"
           THEN singleShadowToCss(val)
         ELSE JStr(Stringify(val))
  ELSE JStr(ToStr(val))

\* Dimension and duration objects { value: v, unit: u }
DimensionValues == { JNum(8), JNum(0), JStr("1.5"), JNull }

DimensionUnits == { JStr("px"), JStr("ms"), JStr(""), JNum(0) }

DimensionObjects ==
  { JObj(<< <<"value", v>>, <<"unit", u>> >>) :
      v \in DimensionValues, u \in DimensionUnits }

aShadow ==
  JObj(<< <<"offsetX", JStr("0px")>>,
          <<"offsetY", JObj(<< <<"value", JNum(1)>>, <<"unit", JStr("px")>> >>)>>,
          <<"blur", JObj(<< <<"value", JNum(2)>>, <<"unit", JStr("px")>> >>)>>,
          <<"spread", JStr("0px")>>,
          <<"color", JStr("#000")>> >>)

aCurve == JArr(<<JNum(0), JNum(0), JNum(1), JNum(1)>>)

\* The values valueToCss is applied to
ConvInputs ==
  DimensionObjects \cup
  { JNull, JStr("#fff"), JNum(400), aCurve, JArr(<<JNum(0), JNum(1)>>),
    aShadow, JArr(<<aShadow, aShadow>>), JArr(<<JNull>>),
    JObj(<< <<"fontFamily", JStr("Inter")>> >>) }

TypeTags ==
  { JNull, JStr("dimension"), JStr("duration"), JStr("cubicBezier"),
    JStr("shadow") }

InitConv ==
  /\ cval \in ConvInputs
  /\ ctype \in TypeTags
  /\ css = JUndef
  /\ cpc = "ready"

\* One call valueToCss(val, type)
ConvertValue ==
  /\ UNCHANGED otherThanConv
  /\ cpc = "ready"
  /\ css' = valueToCss(cval, ctype)
  /\ cpc' = "done"
  /\ UNCHANGED <<cval, ctype>>

NextConv == ConvertValue

(***************************************************************************)
(* tokens-to-scss.js: reference resolution                                 *)
(*                                                                         *)
(* The strings the resolver reads are sequences of characters.             *)
(***************************************************************************)

\* Longest string handed to the resolver.
MaxLen == 6

Alphabet == {"{", "}", ".", "a"}

RStr(cs) == [k |-> "string", chars |-> cs]

\* `var(--${PREFIX}-` with PREFIX = 'atom'
VarPrefix == <<"v", "a", "r", "(", "-", "-", "a", "t", "o", "m", "-">>

\* Position of the first "}" of cs at or after i, or 0.
RECURSIVE NextClose(_, _)
NextClose(cs, i) ==
  IF i > Len(cs) THEN 0
  ELSE IF cs[i] = "}" THEN i
  ELSE NextClose(cs, i + 1)

\* The matches of /\{([^}]+)\}/g in cs from position i on, left to right,
\* each as <<position of "{", position of "}">>.
RECURSIVE Matches(_, _)
Matches(cs, i) ==
  IF i > Len(cs) THEN <<>>
  ELSE IF cs[i] = "{" /\ NextClose(cs, i + 1) > i + 1
    THEN << <<i, NextClose(cs, i + 1)>> >> \o Matches(cs, NextClose(cs, i + 1) + 1)
  ELSE Matches(cs, i + 1)

\* ref.replace(/\./g, '-')
dotsToDashes(ref) == [i \in 1..Len(ref) |-> IF ref[i] = "." THEN "-" ELSE ref[i]]

\* The replacement callback: (_, ref) => `var(--${PREFIX}-${...})`
replacement(ref) == VarPrefix \o dotsToDashes(ref) \o <<")">>

\* String.prototype.replace with the matches ms (from position i on)
RECURSIVE Replace(_, _, _)
Replace(cs, i, ms) ==
  IF Len(ms) = 0 THEN SubSeq(cs, i, Len(cs))
  ELSE SubSeq(cs, i, ms[1][1] - 1)
       \o replacement(SubSeq(cs, ms[1][1] + 1, ms[1][2] - 1))
       \o Replace(cs, ms[1][2] + 1, Tail(ms))

\* The mutant of replaceRefs: the regular expression without the g flag.
replaceRefsFirstOnly(cs) ==
  LET ms == Matches(cs, 1)
  IN Replace(cs, 1, IF Len(ms) = 0 THEN ms ELSE <<ms[1]>>)

\* cssValue.replace(/\{([^}]+)\}/g, ...)
replaceRefs(cs) == Replace(cs, 1, Matches(cs, 1))

\* function resolveReferences(cssValue), build.js:265-270
resolveReferences(v) ==
  IF v.k # "string" THEN v ELSE RStr(replaceRefs(v.chars))

\* value.replace(...) in generateSemantics, tokens-to-scss.js:86-88: a value
\* that is no string has no replace method.
resolveInline(v) ==
  IF v.k # "string" THEN Throw ELSE RStr(replaceRefs(v.chars))

RECURSIVE StringsUpTo(_)
StringsUpTo(n) ==
  IF n = 0 THEN {<<>>}
  ELSE StringsUpTo(n - 1) \cup
       { Append(cs, c) : cs \in { x \in StringsUpTo(n - 1) : Len(x) = n - 1 },
                         c \in Alphabet }

\* The values handed to the resolver: the strings of at most n characters,
\* and values that are no strings.
RefInputs(n) == { RStr(cs) : cs \in StringsUpTo(n) } \cup { JNum(400), JNull }

InitRef ==
  /\ rin \in RefInputs(MaxLen)
  /\ rout = JUndef
  /\ rpc = "ready"

\* generateSemantics of the DTCG script: resolveReferences(value)
ResolveDtcg ==
  /\ UNCHANGED otherThanRef
  /\ rpc = "ready"
  /\ rout' = resolveReferences(rin)
  /\ rpc' = "dtcg"
  /\ UNCHANGED rin

\* generateSemantics of the older script: value.replace(...)
ResolveLegacy ==
  /\ UNCHANGED otherThanRef
  /\ rpc = "ready"
  /\ rout' = resolveInline(rin)
  /\ rpc' = "legacy"
  /\ UNCHANGED rin

NextRef == ResolveDtcg \/ ResolveLegacy

(***************************************************************************)
(* tokens-to-scss.js: token flattening                                     *)
(*                                                                         *)
(* The result object of a flattening pass is a function from flattened key *)
(* to value, or the record that the pass threw.                            *)
(***************************************************************************)

Returned(m) == [ok |-> TRUE, map |-> m]
Thrown == [ok |-> FALSE, map |-> <<>>]

\* key.startsWith('$'), over the keys that occur in token files
startsWithDollar(key) == key \in {"$value", "$type", "$description", "$extensions"}

\* Object.entries(obj)
ObjectEntries(obj) ==
  CASE obj.k = "object" -> obj.fields
    [] obj.k = "array" ->
         [i \in 1..Len(obj.items) |-> <<ToString(i - 1), obj.items[i]>>]
    [] OTHER -> <<>>

\* const newKey = parentKey ? `${parentKey}-${key}` : key
newKeyOf(parentKey, key) ==
  IF parentKey # "" THEN parentKey \o "-" \o key ELSE key

\* const localType = (value && value.$type) || parentType
localTypeOf(value, parentType) ==
  IF Truthy(value) /\ Truthy(Get(value, "$type"))
    THEN Get(value, "$type")
    ELSE parentType

RECURSIVE flattenFrom(_, _, _, _, _)
\* The for loop of flattenTokens (build.js:234-255) from entry i on, with
\* the result object built so far.
flattenFrom(es, i, parentKey, parentType, result) ==
  IF i > Len(es) THEN Returned(result)
  ELSE
    LET key == es[i][1]
        value == es[i][2]
        newKey == newKeyOf(parentKey, key)
        localType == localTypeOf(value, parentType)
        tokenValue == IF typeofObject(value) THEN extractValue(value) ELSE JNull
    IN
    IF startsWithDollar(key)
      THEN flattenFrom(es, i + 1, parentKey, parentType, result)
    ELSE IF tokenValue = Throw THEN Thrown
    ELSE IF tokenValue # JNull
      THEN LET c == valueToCss(tokenValue, localType)
           IN IF c = Throw THEN Thrown
              ELSE IF c # JNull
                THEN flattenFrom(es, i + 1, parentKey, parentType,
                                 (newKey :> c) @@ result)
              ELSE flattenFrom(es, i + 1, parentKey, parentType, result)
    ELSE IF Truthy(value) /\ typeofObject(value)
      THEN LET sub == flattenFrom(ObjectEntries(value), 1, newKey, localType, <<>>)
           IN IF ~sub.ok THEN Thrown
              ELSE flattenFrom(es, i + 1, parentKey, parentType, sub.map @@ result)
    ELSE flattenFrom(es, i + 1, parentKey, parentType, result)

\* function flattenTokens(obj, parentKey = '', parentType = null),
\* build.js:231-258, as generatePrimitives and generateSemantics call it
flattenTokens(obj) == flattenFrom(ObjectEntries(obj), 1, "", JNull, <<>>)

\* 'value' in value
hasValueField(v) ==
  v.k = "object" /\ \E i \in 1..Len(v.fields) : v.fields[i][1] = "value"

RECURSIVE flattenLegacyFrom(_, _, _, _)
\* The for loop of the older flattenTokens (tokens-to-scss.js:21-28)
flattenLegacyFrom(es, i, parentKey, result) ==
  IF i > Len(es) THEN Returned(result)
  ELSE
    LET key == es[i][1]
        value == es[i][2]
        newKey == newKeyOf(parentKey, key)
    IN
    IF Truthy(value) /\ typeofObject(value) /\ hasValueField(value)
      THEN flattenLegacyFrom(es, i + 1, parentKey,
                             (newKey :> Get(value, "value")) @@ result)
    ELSE IF Truthy(value) /\ typeofObject(value)
      THEN LET sub == flattenLegacyFrom(ObjectEntries(value), 1, newKey, <<>>)
           IN flattenLegacyFrom(es, i + 1, parentKey, sub.map @@ result)
    ELSE flattenLegacyFrom(es, i + 1, parentKey, result)

\* function flattenTokens(obj, parentKey = ''), tokens-to-scss.js:19-30
flattenTokensLegacy(obj) == flattenLegacyFrom(ObjectEntries(obj), 1, "", <<>>)

(***************************************************************************)
(* Token files: a tree is a set of key paths closed under prefixes (its    *)
(* shape), what stands at each path (its label) and the $type of the root  *)
(* group. TreeJson builds the parsed JSON value from it.                   *)
(***************************************************************************)

\* Most nodes of a token file, the root apart.
MaxNodes == 3

\* The keys of token files, in the order they stand in an object.
KeyOrder == <<"a", "b", "a-b", "">>

Keys == { KeyOrder[i] : i \in 1..Len(KeyOrder) }

NoType == JUndef

\* What stands at a path: a group or a token ($value), each with or without
\* a declared $type, a token of the legacy format (value), or null.
Labels ==
  { [kind |-> "group", type |-> NoType],
    [kind |-> "group", type |-> JStr("cubicBezier")],
    [kind |-> "token", type |-> NoType],
    [kind |-> "token", type |-> JStr("cubicBezier")],
    [kind |-> "token", type |-> JStr("number")],
    [kind |-> "legacy", type |-> NoType],
    [kind |-> "null", type |-> NoType] }

RootTypes == { NoType, JStr("cubicBezier") }

RECURSIVE Shapes(_)
Shapes(n) ==
  IF n = 0 THEN {{}}
  ELSE Shapes(n - 1) \cup
       UNION { { S \cup {Append(p, key)} : p \in S \cup {<<>>}, key \in Keys } :
                 S \in { x \in Shapes(n - 1) : Cardinality(x) = n - 1 } }

HasChild(S, p) == \E key \in Keys : Append(p, key) \in S

TreesOn(S) ==
  { [shape |-> S, label |-> l, rootType |-> rt] :
      l \in { x \in [S -> Labels] :
                \A p \in S : HasChild(S, p) => x[p].kind = "group" },
      rt \in RootTypes }

\* The token files of at most n nodes.
Trees(n) == UNION { TreesOn(S) : S \in Shapes(n) }

\* The value of every token: a 4-element array, which valueToCss converts
\* by the resolved type.
TokenValue == aCurve

SeqOfKids(t, p) == SelectSeq(KeyOrder, LAMBDA key : Append(p, key) \in t.shape)

RECURSIVE NodeJson(_, _)
NodeJson(t, p) ==
  LET lab == t.label[p]
      kids == SeqOfKids(t, p)
  IN IF lab.kind = "null" THEN JNull
     ELSE JObj((IF lab.type = NoType THEN <<>> ELSE << <<"$type", lab.type>> >>)
               \o (IF lab.kind = "token" THEN << <<"$value", TokenValue>> >>
                   ELSE IF lab.kind = "legacy" THEN << <<"value", TokenValue>> >>
                   ELSE <<>>)
               \o [i \in 1..Len(kids) |-> <<kids[i], NodeJson(t, Append(p, kids[i]))>>])

TreeJson(t) ==
  LET kids == SeqOfKids(t, <<>>)
  IN JObj((IF t.rootType = NoType THEN <<>> ELSE << <<"$type", t.rootType>> >>)
          \o [i \in 1..Len(kids) |-> <<kids[i], NodeJson(t, <<kids[i]>>)>>])

InitFlat ==
  /\ tree \in Trees(MaxNodes)
  /\ fres = Returned(<<>>)
  /\ fpc = "ready"

\* const tokens = flattenTokens(data), build.js:298
FlattenDtcg ==
  /\ UNCHANGED otherThanFlat
  /\ fpc = "ready"
  /\ fres' = flattenTokens(TreeJson(tree))
  /\ fpc' = "dtcg"
  /\ UNCHANGED tree

\* const tokens = flattenTokens(data), tokens-to-scss.js:47
FlattenLegacy ==
  /\ UNCHANGED otherThanFlat
  /\ fpc = "ready"
  /\ fres' = flattenTokensLegacy(TreeJson(tree))
  /\ fpc' = "legacy"
  /\ UNCHANGED tree

NextFlat == FlattenDtcg \/ FlattenLegacy

(***************************************************************************)
(* Specifications: one per script; the variables of the other scripts stay *)
(* at their idle values.                                                   *)
(***************************************************************************)

WatchIdle ==
  /\ building = FALSE
  /\ wpc = [e \in Events |-> "pending"]
  /\ changed = [e \in Events |-> NoPath]
  /\ log = <<>>
  /\ threw = [e \in Events |-> "none"]

BuildIdle ==
  /\ bpc = "off"
  /\ bi = 1
  /\ built = 0
  /\ skipped = 0
  /\ srcExists = [i \in Entries |-> "unknown"]
  /\ invoked = <<>>
  /\ succeeded = {}
  /\ dist0 = {}
  /\ dist = {}
  /\ dirs = {}

ConvIdle ==
  /\ cval = JNull
  /\ ctype = JNull
  /\ css = JUndef
  /\ cpc = "off"

RefIdle ==
  /\ rin = JNull
  /\ rout = JUndef
  /\ rpc = "off"

FlatIdle ==
  /\ tree = [shape |-> {}, label |-> <<>>, rootType |-> NoType]
  /\ fres = Returned(<<>>)
  /\ fpc = "off"

InitW == InitWatch /\ BuildIdle /\ ConvIdle /\ RefIdle /\ FlatIdle

SpecWatch == InitW /\ [][NextWatch]_vars

InitB == InitBuild /\ WatchIdle /\ ConvIdle /\ RefIdle /\ FlatIdle

SpecBuild == InitB /\ [][NextBuild]_vars

InitC == InitConv /\ WatchIdle /\ BuildIdle /\ RefIdle /\ FlatIdle

SpecConvert == InitC /\ [][NextConv]_vars

InitR == InitRef /\ WatchIdle /\ BuildIdle /\ ConvIdle /\ FlatIdle

SpecResolve == InitR /\ [][NextRef]_vars

InitF == InitFlat /\ WatchIdle /\ BuildIdle /\ ConvIdle /\ RefIdle

SpecFlatten == InitF /\ [][NextFlat]_vars

(***************************************************************************)
(* Properties of the watcher                                               *)
(***************************************************************************)

Started(e) == wpc[e] \notin {"pending", "dropped"}

Finished(e) == wpc[e] \in {"complete", "failed"}

Positions(e, step) == { i \in 1..Len(log) : log[i] = <<e, step>> }

Ran(e, step) == Positions(e, step) # {}

NoneExecuting == \A d \in Events : ~Executing(d)

\* An event is handed to rebuild() in this step.
Delivered(e) == wpc[e] = "pending" /\ wpc'[e] # "pending"

C1_State ==
  /\ Cardinality({ e \in Events : Executing(e) }) <= 1
  /\ \A e \in Events :
       wpc[e] = "dropped" => ~Ran(e, "tokens") /\ ~Ran(e, "core")

C1_Step ==
  \A e \in Events :
    /\ Delivered(e) /\ ~NoneExecuting => wpc'[e] = "dropped" /\ log' = log
    /\ wpc[e] = "dropped" => wpc'[e] = "dropped"

\* C1: at most one rebuild is in progress at any time; an event that reaches
\* rebuild() while a rebuild is in progress is dropped: it starts no token
\* step and no build step, and it stays dropped after the active rebuild
\* has finished.
C1_SingleInFlight == []C1_State /\ [][C1_Step]_vars

\* An event was dropped and the rebuild that was active then has finished.
C1_Witness ==
  \E e \in Events, d \in Events :
    /\ d < e
    /\ wpc[e] = "dropped"
    /\ Finished(d)
    /\ NoneExecuting

\* C2 as stated: every rebuild that starts runs build:core; the token step
\* runs iff the changed path is under the tokens root, and then before
\* build:core.
C2_Original ==
  \A e \in Events :
    /\ Started(e) => (Ran(e, "tokens") <=> startsWith(changed[e], TOKENS))
    /\ Finished(e) => Ran(e, "core")
    /\ \A i \in Positions(e, "tokens"), j \in Positions(e, "core") : i < j

\* C2 (amended): in every rebuild that starts, the token step runs iff the
\* changed path is under the tokens root; build:core runs, once and after
\* the token step, in every rebuild whose token step did not throw, and is
\* not run at all in a rebuild whose token step threw.
C2_StepOrdering ==
  \A e \in Events :
    /\ Started(e) => (Ran(e, "tokens") <=> startsWith(changed[e], TOKENS))
    /\ Finished(e) => (Ran(e, "core") <=> threw[e] # "tokens")
    /\ Cardinality(Positions(e, "tokens")) <= 1
    /\ Cardinality(Positions(e, "core")) <= 1
    /\ \A i \in Positions(e, "tokens"), j \in Positions(e, "core") : i < j

\* A finished rebuild for a token file that ran both steps, and a finished
\* rebuild for a stylesheet that ran build:core alone.
C2_Witness ==
  \E e \in Events, d \in Events :
    /\ wpc[e] = "complete" /\ Ran(e, "tokens") /\ Ran(e, "core")
    /\ Finished(d) /\ ~Ran(d, "tokens") /\ Ran(d, "core")

C4_State == NoneExecuting => building = FALSE

C4_Step ==
  \A e \in Events : Delivered(e) /\ NoneExecuting => Executing(e)'

\* C4: whenever no rebuild is executing the building flag is false, whether
\* the last rebuild succeeded or a step threw, and an event delivered then
\* starts a new rebuild.
C4_SurvivesFailure == []C4_State /\ [][C4_Step]_vars

\* A rebuild failed and a later event started a new rebuild.
C4_Witness ==
  \E e \in Events, d \in Events :
    /\ d < e
    /\ wpc[d] = "failed"
    /\ Executing(e)

(***************************************************************************)
(* Properties of the module compiler                                       *)
(***************************************************************************)

Processed == 1..(bi - 1)

\* The entries processed so far whose source file existed, in manifest order.
RECURSIVE ExistingUpTo(_)
ExistingUpTo(n) ==
  IF n = 0 THEN <<>>
  ELSE IF srcExists[n] = TRUE THEN Append(ExistingUpTo(n - 1), n)
  ELSE ExistingUpTo(n - 1)

Failed == { invoked[k] : k \in 1..Len(invoked) } \ succeeded

\* C3: the compiler is invoked exactly once, in manifest order, for every
\* entry whose source file exists, whether or not it failed for an earlier
\* entry; a failure neither ends the loop early nor keeps the script from
\* the bundle steps; built counts exactly the entries whose compile
\* succeeded.
C3_FailureIsolation ==
  /\ invoked = ExistingUpTo(bi - 1)
  /\ succeeded \subseteq { invoked[k] : k \in 1..Len(invoked) }
  /\ built = Cardinality(succeeded)
  /\ bpc \in {"tokens_bundle", "ext_bundle", "done"} => bi = Len(modules) + 1
  /\ bpc = "loop" /\ bi <= Len(modules) => ENABLED (NextBuild)

\* A finished run in which the compiler failed for an entry and was invoked
\* for later ones, of which one succeeded and one failed again.
C3_Witness ==
  /\ bpc = "done"
  /\ \E i \in Failed, j \in succeeded, k \in Failed : i < j /\ j < k
  /\ allExtensionsPath \in dist

\* C9: an entry whose source file does not exist when it is processed is not
\* handed to the compiler and is counted as skipped, not as built; no file
\* appears at its output path; built + skipped never exceeds the number of
\* manifest entries.
C9_MissingSourceSkip ==
  /\ \A i \in Processed :
       srcExists[i] = FALSE =>
         /\ \A k \in 1..Len(invoked) : invoked[k] # i
         /\ i \notin succeeded
         /\ (modules[i].output \in dist <=> modules[i].output \in dist0)
  /\ skipped = Cardinality({ i \in Processed : srcExists[i] = FALSE })
  /\ built <= Cardinality({ i \in Processed : srcExists[i] = TRUE })
  /\ built + skipped <= Len(modules)

\* A finished run over a fresh dist/ that skipped an entry and built others.
C9_Witness ==
  /\ bpc = "done"
  /\ dist0 = {}
  /\ \E i \in Entries : srcExists[i] = FALSE /\ modules[i].output \notin dist
  /\ skipped >= 1
  /\ built >= 1

(***************************************************************************)
(* Properties of the value converter                                       *)
(***************************************************************************)

IsDimensionObject(v) ==
  /\ v.k = "object"
  /\ Get(v, "value").k # "undefined"
  /\ Get(v, "unit").k # "undefined"

\* C6: for every object with fields value = v and unit = u, whatever v, u
\* and the declared type are, valueToCss returns the string v followed by u.
C6_Dimension ==
  cpc = "done" /\ IsDimensionObject(cval) =>
    css = JStr(ToStr(Get(cval, "value")) \o ToStr(Get(cval, "unit")))

(***************************************************************************)
(* Properties of the reference resolver                                    *)
(***************************************************************************)

IsBrace(c) == c \in {"{", "}"}

\* The brace-reference occurrences of cs: a "{", then one or more characters
\* that are no braces, then a "}".
Occurrences(cs) ==
  { pq \in (1..Len(cs)) \X (1..Len(cs)) :
      /\ cs[pq[1]] = "{"
      /\ cs[pq[2]] = "}"
      /\ pq[2] > pq[1] + 1
      /\ \A i \in (pq[1] + 1)..(pq[2] - 1) : ~IsBrace(cs[i]) }

\* Every brace of cs delimits a brace-reference occurrence.
WellBraced(cs) ==
  \A i \in 1..Len(cs) :
    IsBrace(cs[i]) => \E pq \in Occurrences(cs) : i \in {pq[1], pq[2]}

RECURSIVE Flatten(_)
Flatten(seqs) == IF Len(seqs) = 0 THEN <<>> ELSE seqs[1] \o Flatten(Tail(seqs))

\* cs with every occurrence {a.b.c} rewritten to var(--atom-a-b-c) and every
\* character outside the occurrences kept.
Expected(cs) ==
  Flatten([i \in 1..Len(cs) |->
    IF \E pq \in Occurrences(cs) : pq[1] = i
      THEN LET q == (CHOOSE pq \in Occurrences(cs) : pq[1] = i)[2]
           IN VarPrefix
              \o [j \in 1..(q - i - 1) |->
                    IF cs[i + j] = "." THEN "-" ELSE cs[i + j]]
              \o <<")">>
    ELSE IF \E pq \in Occurrences(cs) : pq[1] < i /\ i <= pq[2]
      THEN <<>>
    ELSE <<cs[i]>>])

Substitutions(cs) == Len(Matches(cs, 1))

Resolved == rpc \in {"dtcg", "legacy"} /\ rin.k = "string"

\* C7 as stated: for every string, each of its N brace-reference occurrences
\* is rewritten, N substitutions are made, no brace is left in the result
\* and the text outside the references is unchanged.
C7_Original ==
  Resolved =>
    /\ rout = RStr(Expected(rin.chars))
    /\ Substitutions(rin.chars) = Cardinality(Occurrences(rin.chars))
    /\ \A i \in 1..Len(rout.chars) : ~IsBrace(rout.chars[i])

\* C7 (amended): for every string whose braces all delimit brace-reference
\* occurrences, each of the N occurrences {a.b.c} is rewritten to
\* var(--atom-a-b-c), exactly N substitutions are made, no brace is left in
\* the result and the text outside the references is unchanged.
C7_ReferenceResolution ==
  Resolved /\ WellBraced(rin.chars) =>
    /\ rout = RStr(Expected(rin.chars))
    /\ Substitutions(rin.chars) = Cardinality(Occurrences(rin.chars))
    /\ \A i \in 1..Len(rout.chars) : ~IsBrace(rout.chars[i])

\* Two references, one of them dotted, were resolved in one string.
C7_Witness ==
  /\ Resolved
  /\ WellBraced(rin.chars)
  /\ Cardinality(Occurrences(rin.chars)) = 2
  /\ \E i \in 1..Len(rin.chars) : rin.chars[i] = "."

(***************************************************************************)
(* Properties of the token flattener                                       *)
(***************************************************************************)

\* The leaf tokens of a tree that a pass of the given version reads: the
\* DTCG script reads $value and value, the older script value alone.
IsLeaf(t, p, version) ==
  IF version = "dtcg" THEN t.label[p].kind \in {"token", "legacy"}
  ELSE t.label[p].kind = "legacy"

LeafPaths(t, version) == { p \in t.shape : IsLeaf(t, p, version) }

\* The dash-joined path of a leaf.
DashJoined(p) == JoinWith(p, "-")

\* No key of the tree is empty or holds a dash, so that distinct paths have
\* distinct dash-joined forms.
PlainKeys(t) == \A p \in t.shape : \A i \in 1..Len(p) : p[i] \in {"a", "b"}

\* The type the nearest group at or above p declares (the root group of the
\* file included), looking from p upwards; null when none does.
RECURSIVE DeclaredType(_, _)
DeclaredType(t, p) ==
  IF p = <<>>
    THEN IF t.rootType = NoType THEN JNull ELSE t.rootType
  ELSE IF t.label[p].type # NoType THEN t.label[p].type
  ELSE DeclaredType(t, SubSeq(p, 1, Len(p) - 1))

\* C5: every leaf is converted with its own declared $type if it has one,
\* otherwise with the $type of the nearest ancestor group that declares
\* one, otherwise with none: a 4-element array is rendered cubic-bezier(...)
\* exactly when that type is cubicBezier.
C5_TypeInheritance ==
  fpc = "dtcg" /\ fres.ok /\ PlainKeys(tree) =>
    \A p \in LeafPaths(tree, "dtcg") :
      /\ DashJoined(p) \in DOMAIN fres.map
      /\ fres.map[DashJoined(p)] = valueToCss(TokenValue, DeclaredType(tree, p))

\* C8: in one flattening pass no two leaf tokens produce the same flattened
\* path, so that the pass emits as many entries as the tree has leaf tokens.
C8_PathUniqueness ==
  fpc \in {"dtcg", "legacy"} /\ fres.ok =>
    Cardinality(DOMAIN fres.map) = Cardinality(LeafPaths(tree, fpc))

\* C10: flattenTokens returns normally for every tree; a key whose value is
\* null adds no entry and the other keys are flattened all the same.
C10_TotalOnNull ==
  fpc = "dtcg" =>
    /\ fres.ok
    /\ PlainKeys(tree) =>
         DOMAIN fres.map = { DashJoined(p) : p \in LeafPaths(tree, "dtcg") }

====
